---- MODULE Spec2Model ----
(***************************************************************************)
(* The irqwatch command of knit (cmd/knit/cmd/irqwatch.go): watchIRQs      *)
(* reads a baseline snapshot of the IRQ counters, then loops on a select   *)
(* over the SIGINT channel and a ticker, reading a fresh snapshot on every *)
(* tick, and prints a summary when the loop is left.                       *)
(***************************************************************************)
EXTENDS Integers, Sequences, FiniteSets

\* ---------------------------------------------------------------- bounds

\* Largest counter value a snapshot holds.
MaxCount == 1
\* Largest value of --watch-times drawn, and the cap on the tick reads of one
\* run (an unbounded run is cut here).
MaxTicks == 2

\* ---------------------------------------------------------------- inputs

CPUs == {0, 1}
Labels == {"16"}
\* knitOpts.cpus as parsed by the root command.
CpuSets == {{1}, {0, 1}}
\* opts.period: "1s" is the flag's default, the other does not parse.
Periods == {"1s", "1x"}
\* The strings of Periods that time.ParseDuration accepts.
ValidPeriods == {"1s"}
MaxRunsValues == (-1) .. MaxTicks
Verbosities == 0 .. 2

\* irqs.Counter: interrupt label -> count; irqs.Stats: cpu id -> Counter.
\* What a successful ReadStats may return: CPU0 always has a column and
\* serves the interrupts; CPU1 is idle (its counts stay 0) and may be missing
\* from the table.
StatsUniverse ==
  {[c \in cs |-> [l \in Labels |-> IF c = 0 THEN n ELSE 0]] :
     cs \in {x \in SUBSET CPUs : 0 \in x}, n \in 0 .. MaxCount}

\* The zero value of a Go map variable: reads as an empty map.
NilStats == [c \in {} |-> [l \in {} |-> 0]]

\* ---------------------------------------------------------------- pkg/irqs

\* Stats.Clone: a deep copy, rebuilt entry by entry.
Clone(s) == [c \in DOMAIN s |-> [l \in DOMAIN s[c] |-> s[c][l]]]

\* earlier.Delta(later): for every cpu of later, every label of later[cpu]
\* that earlier[cpu] holds too, the increase clamped at 0.
Delta(earlier, later) ==
  [c \in DOMAIN later |->
     [l \in {x \in DOMAIN later[c] : c \in DOMAIN earlier /\ x \in DOMAIN earlier[c]} |->
        IF later[c][l] >= earlier[c][l] THEN later[c][l] - earlier[c][l] ELSE 0]]

\* ---------------------------------------------------------------- presenters

\* The (cpu, irq, value) lines the text dumps print for a delta.
TextLines(delta, cs) ==
  UNION {{<<c, l, delta[c][l]>> : l \in {x \in DOMAIN delta[c] : delta[c][x] # 0}} :
           c \in cs \cap DOMAIN delta}

\* countersForCPUs: the cpus of the set that have a non-empty counter.
countersForCPUs(cs, stats) ==
  [c \in {x \in cs \cap DOMAIN stats : DOMAIN stats[x] # {}} |-> stats[c]]

\* The (cpu, irq, value) entries of the "counters" object the JSON dumps encode.
JSONLines(stats) ==
  UNION {{<<c, l, stats[c][l]>> : l \in DOMAIN stats[c]} : c \in DOMAIN stats}

dumpIrqDeltaText(prev, last, cs) ==
  [kind |-> "delta", json |-> FALSE, prev |-> prev, last |-> last, lastNil |-> FALSE,
   lines |-> TextLines(Delta(prev, last), cs)]

dumpIrqDeltaJSON(prev, last, cs) ==
  [kind |-> "delta", json |-> TRUE, prev |-> prev, last |-> last, lastNil |-> FALSE,
   lines |-> JSONLines(countersForCPUs(cs, Delta(prev, last)))]

dumpIrqSummaryText(prev, last, isNil, cs) ==
  [kind |-> "summary", json |-> FALSE, prev |-> prev, last |-> last, lastNil |-> isNil,
   lines |-> TextLines(Delta(prev, last), cs)]

dumpIrqSummaryJSON(prev, last, isNil, cs) ==
  [kind |-> "summary", json |-> TRUE, prev |-> prev, last |-> last, lastNil |-> isNil,
   lines |-> JSONLines(countersForCPUs(cs, Delta(prev, last)))]

\* ---------------------------------------------------------------- state

VARIABLES
  maxRuns,      \* opts.maxRuns
  verbose,      \* opts.verbose
  period,       \* opts.period
  jsonOutput,   \* knitOpts.jsonOutput
  cpus,         \* knitOpts.cpus
  pc,           \* "start", "select" (blocked in the select), "reading", "returned"
  ret,          \* what watchIRQs returned: "none" (still running), "nil", "err"
  initStats,
  prevStats,
  lastStats,
  lastStatsNil, \* lastStats == nil (declared, never assigned)
  done,
  iterCount,
  sigPending,   \* an os.Interrupt waits in channel c (capacity 1)
  tickPending,  \* a tick waits in ticker.C (capacity 1)
  calls,        \* ReadStats calls made so far
  snaps,        \* the snapshots ReadStats returned, in order (snaps[1]: baseline)
  out           \* the records written to stdout, in order

vars == <<maxRuns, verbose, period, jsonOutput, cpus, pc, ret, initStats, prevStats,
          lastStats, lastStatsNil, done, iterCount, sigPending, tickPending, calls,
          snaps, out>>

opts == <<maxRuns, verbose, period, jsonOutput, cpus>>

Init ==
  /\ maxRuns \in MaxRunsValues
  /\ verbose \in Verbosities
  /\ period \in Periods
  /\ jsonOutput \in BOOLEAN
  /\ cpus \in CpuSets
  /\ pc = "start"
  /\ ret = "none"
  /\ initStats = NilStats
  /\ prevStats = NilStats
  /\ lastStats = NilStats
  /\ lastStatsNil = TRUE
  /\ done = FALSE
  /\ iterCount = 0
  /\ sigPending = FALSE
  /\ tickPending = FALSE
  /\ calls = 0
  /\ snaps = <<>>
  /\ out = <<>>

\* ---------------------------------------------------------------- watchIRQs

\* Mutant: the early return for --watch-times 0 is missing.
IsNoop_Never(n) == FALSE

\* irqwatch.go:55  if opts.maxRuns == 0 { return nil }
IsNoop(n) == n = 0

\* Mutant: the error of time.ParseDuration is dropped.
ParseDurationErr_Ignored(p) == FALSE

\* irqwatch.go:60-63  time.ParseDuration(opts.period) fails.
ParseDurationErr(p) == p \notin ValidPeriods

\* Mutant: the counter is compared with > (one iteration too many).
LoopExit_OffByOne(d, n, i) == d \/ (n > 0 /\ i > n)

\* Mutant: the "if done { break }" is missing.
LoopExit_NoDone(d, n, i) == n > 0 /\ i >= n

\* Mutant: the counter is compared without the maxRuns > 0 guard.
LoopExit_NoGuard(d, n, i) == d \/ i >= n

\* irqwatch.go:103-108  the two breaks after the select.
LoopExit(d, n, i) == d \/ (n > 0 /\ i >= n)

\* irqwatch.go:93-99  the per-tick record, when verbose asks for it.
TickOutput(o, prev, last) ==
  IF verbose >= 2
    THEN Append(o, IF jsonOutput THEN dumpIrqDeltaJSON(prev, last, cpus)
                                 ELSE dumpIrqDeltaText(prev, last, cpus))
    ELSE o

\* Mutant: the rolling slot is not advanced.
NextPrev_Keep(prev, last) == prev

\* irqwatch.go:100  prevStats = lastStats
NextPrev(prev, last) == last

\* Mutant: the summary starts at the rolling slot instead of the baseline.
SummaryOutput_FromPrev(o, last, isNil) ==
  IF verbose >= 1
    THEN Append(o, IF jsonOutput THEN dumpIrqSummaryJSON(prevStats, last, isNil, cpus)
                                 ELSE dumpIrqSummaryText(prevStats, last, isNil, cpus))
    ELSE o

\* irqwatch.go:112-118  the summary, between initStats and lastStats.
SummaryOutput(o, last, isNil) ==
  IF verbose >= 1
    THEN Append(o, IF jsonOutput THEN dumpIrqSummaryJSON(initStats, last, isNil, cpus)
                                 ELSE dumpIrqSummaryText(initStats, last, isNil, cpus))
    ELSE o

\* irqwatch.go:103-119  what follows the select in one iteration: break and
\* print the summary, or count the iteration and go back to the select.
AfterSelect(d, o, last, isNil) ==
  IF LoopExit(d, maxRuns, iterCount)
    THEN /\ pc' = "returned"
         /\ ret' = "nil"
         /\ out' = SummaryOutput(o, last, isNil)
         /\ iterCount' = iterCount
    ELSE /\ pc' = "select"
         /\ ret' = ret
         /\ out' = o
         /\ iterCount' = iterCount + 1

ReturnNoop ==
  /\ pc = "start"
  /\ IsNoop(maxRuns)
  /\ pc' = "returned"
  /\ ret' = "nil"
  /\ UNCHANGED <<opts, initStats, prevStats, lastStats, lastStatsNil, done, iterCount,
                 sigPending, tickPending, calls, snaps, out>>

ParseFail ==
  /\ pc = "start"
  /\ ~IsNoop(maxRuns)
  /\ ParseDurationErr(period)
  /\ pc' = "returned"
  /\ ret' = "err"
  /\ UNCHANGED <<opts, initStats, prevStats, lastStats, lastStatsNil, done, iterCount,
                 sigPending, tickPending, calls, snaps, out>>

BaselineFail ==
  /\ pc = "start"
  /\ ~IsNoop(maxRuns)
  /\ ~ParseDurationErr(period)
  /\ calls' = calls + 1
  /\ pc' = "returned"
  /\ ret' = "err"
  /\ UNCHANGED <<opts, initStats, prevStats, lastStats, lastStatsNil, done, iterCount,
                 sigPending, tickPending, snaps, out>>

BaselineOK ==
  /\ pc = "start"
  /\ ~IsNoop(maxRuns)
  /\ ~ParseDurationErr(period)
  /\ \E s \in StatsUniverse :
       /\ initStats' = s
       /\ prevStats' = Clone(s)
       /\ snaps' = Append(snaps, s)
  /\ calls' = calls + 1
  /\ done' = FALSE
  /\ iterCount' = 1
  /\ pc' = "select"
  /\ UNCHANGED <<opts, ret, lastStats, lastStatsNil, sigPending, tickPending, out>>

\* The user interrupts the process; signal.Notify drops a signal the channel
\* has no room for. Once done is set the loop is left in the same iteration.
SignalArrives ==
  /\ pc \in {"select", "reading"}
  /\ ~sigPending
  /\ ~done
  /\ sigPending' = TRUE
  /\ UNCHANGED <<opts, pc, ret, initStats, prevStats, lastStats, lastStatsNil, done,
                 iterCount, tickPending, calls, snaps, out>>

\* The period elapses; the ticker drops a tick the channel has no room for.
TimerFires ==
  /\ pc \in {"select", "reading"}
  /\ ~tickPending
  /\ tickPending' = TRUE
  /\ UNCHANGED <<opts, pc, ret, initStats, prevStats, lastStats, lastStatsNil, done,
                 iterCount, sigPending, calls, snaps, out>>

\* case <-c: done = true, then the rest of the iteration.
SelectSignal ==
  /\ pc = "select"
  /\ sigPending
  /\ sigPending' = FALSE
  /\ done' = TRUE
  /\ AfterSelect(TRUE, out, lastStats, lastStatsNil)
  /\ UNCHANGED <<opts, initStats, prevStats, lastStats, lastStatsNil, tickPending,
                 calls, snaps>>

\* case t := <-ticker.C: ih.ReadStats() is called.
SelectTick ==
  /\ pc = "select"
  /\ tickPending
  /\ calls <= MaxTicks
  /\ tickPending' = FALSE
  /\ calls' = calls + 1
  /\ pc' = "reading"
  /\ UNCHANGED <<opts, ret, initStats, prevStats, lastStats, lastStatsNil, done,
                 iterCount, sigPending, snaps, out>>

\* Mutant: a failed read is skipped and the loop waits for the next tick.
ReadFail_Retry ==
  /\ pc = "reading"
  /\ pc' = "select"
  /\ UNCHANGED <<opts, ret, initStats, prevStats, lastStats, lastStatsNil, done,
                 iterCount, sigPending, tickPending, calls, snaps, out>>

\* ih.ReadStats() fails: return err.
ReadFail ==
  /\ pc = "reading"
  /\ pc' = "returned"
  /\ ret' = "err"
  /\ UNCHANGED <<opts, initStats, prevStats, lastStats, lastStatsNil, done, iterCount,
                 sigPending, tickPending, calls, snaps, out>>

\* ih.ReadStats() succeeds: the rest of the tick case and of the iteration.
ReadOK ==
  /\ pc = "reading"
  /\ \E s \in StatsUniverse :
       /\ lastStats' = s
       /\ lastStatsNil' = FALSE
       /\ snaps' = Append(snaps, s)
       /\ prevStats' = NextPrev(prevStats, s)
       /\ AfterSelect(done, TickOutput(out, prevStats, s), s, FALSE)
  /\ UNCHANGED <<opts, initStats, done, sigPending, tickPending, calls>>

Next ==
  \/ ReturnNoop
  \/ ParseFail
  \/ BaselineFail
  \/ BaselineOK
  \/ SignalArrives
  \/ TimerFires
  \/ SelectSignal
  \/ SelectTick
  \/ ReadFail
  \/ ReadOK

Spec == Init /\ [][Next]_vars

\* A read that was started completes, and a signal that waits in the channel
\* is taken: the select picks at random among the cases that are ready, so a
\* case that is ready again and again is not passed over for ever.
LiveSpec == Spec /\ WF_vars(ReadOK \/ ReadFail) /\ SF_vars(SelectSignal)

\* ---------------------------------------------------------------- properties

Summaries == {i \in DOMAIN out : out[i].kind = "summary"}
DeltaRecords == {i \in DOMAIN out : out[i].kind = "delta"}
\* A step of the watch loop (not of the timer or of the signal source).
LoopStep == pc' # pc \/ iterCount' # iterCount

\* C1: a run with maxRuns # 0 and verbose >= 1 that leaves the loop before any
\* tick was read still prints a summary, and both endpoints of that summary
\* are the baseline: its "last" snapshot is never the unassigned lastStats.
C1_SummaryOfBaseline ==
  (pc = "returned" /\ ret = "nil" /\ maxRuns # 0 /\ verbose >= 1 /\ calls = 1)
    => (\E i \in Summaries :
          /\ out[i].prev = snaps[1]
          /\ out[i].last = snaps[1]
          /\ ~out[i].lastNil)

\* C2 as stated: with maxRuns = 0 and verbose >= 1 no tick is read and the
\* summary printed is baseline against baseline.
C2_NoopPrintsZeroSummary ==
  (pc = "returned" /\ maxRuns = 0 /\ verbose >= 1)
    => /\ calls <= 1
       /\ \E i \in Summaries : out[i].prev = initStats /\ out[i].last = initStats

\* C2 amended: with maxRuns = 0 watchIRQs returns nil at once: no ReadStats
\* call (no baseline, no tick) and no record, summary included.
C2_NoopPrintsNothing ==
  maxRuns = 0 => /\ pc \in {"start", "returned"}
                 /\ calls = 0
                 /\ out = <<>>
                 /\ (pc = "returned" => ret = "nil")

C2_Witness == maxRuns = 0 /\ verbose >= 1 /\ pc = "returned"

\* C3: after at least one tick and no read error, the summary goes from the
\* first snapshot read (the baseline) to the snapshot of the last successful
\* tick read, and no tick replaces the baseline.
C3_SummaryEndpoints ==
  /\ (Len(snaps) >= 1 => initStats = snaps[1])
  /\ (Len(snaps) >= 2 =>
        \A i \in Summaries : /\ out[i].prev = snaps[1]
                              /\ out[i].last = snaps[Len(snaps)]
                              /\ ~out[i].lastNil)
  /\ (pc = "returned" /\ ret = "nil" /\ verbose >= 1 /\ Len(snaps) >= 2
        => Summaries = {Len(out)})

C3_Witness ==
  /\ pc = "returned"
  /\ Summaries # {}
  /\ Len(snaps) >= 3
  /\ snaps[1] # snaps[2] /\ snaps[2] # snaps[3] /\ snaps[1] # snaps[3]

\* C4: with maxRuns = N > 0, no signal taken and no failed read, the loop
\* reads exactly N ticks (N + 1 ReadStats calls with the baseline) and ends:
\* never a tick N + 1, never an end by the counter before tick N.
C4_ExactlyNTicks ==
  maxRuns > 0 =>
    /\ calls <= maxRuns + 1
    /\ (Len(snaps) = maxRuns + 1 => pc = "returned")
    /\ (pc = "returned" /\ ret = "nil" /\ ~done
          => Len(snaps) = maxRuns + 1 /\ calls = maxRuns + 1)

C4_Witness ==
  maxRuns > 1 /\ pc = "returned" /\ ret = "nil" /\ ~done /\ calls = maxRuns + 1

\* C5: a failed ReadStats call (baseline or tick) ends watchIRQs with the
\* error: it is the last call made, no summary is printed, and only the
\* per-tick records of the earlier successful ticks are on the output.
C5_ReadErrorIsFatal ==
  /\ calls <= Len(snaps) + 1
  /\ (pc = "reading" => calls = Len(snaps) + 1)
  /\ (calls > Len(snaps) /\ pc # "reading"
        => /\ pc = "returned"
           /\ ret = "err"
           /\ Summaries = {}
           /\ Len(out) = IF verbose >= 2 /\ Len(snaps) >= 1 THEN Len(snaps) - 1 ELSE 0)

C5_Witness ==
  ret = "err" /\ Len(snaps) >= 2 /\ DeltaRecords # {}

\* C6 as stated: whenever a signal waits in the channel when an iteration
\* begins, that iteration makes no ReadStats call and the loop ends.
C6_PendingSignalWins ==
  [][(pc = "select" /\ sigPending /\ LoopStep)
       => (calls' = calls /\ pc' = "returned")]_vars

\* C6 amended: when a signal waits and no tick waits as an iteration begins,
\* the iteration makes no ReadStats call and the loop ends (with a tick
\* waiting too the select may take either); a read in flight completes
\* before the signal is looked at.
C6_PendingSignalAlone ==
  /\ [][(pc = "select" /\ sigPending /\ ~tickPending /\ LoopStep)
          => (calls' = calls /\ pc' = "returned" /\ done')]_vars
  /\ [][(pc = "reading" /\ LoopStep)
          => /\ calls' = calls
             /\ sigPending' = sigPending
             /\ done' = done
             /\ (Len(snaps') = Len(snaps) + 1 \/ ret' = "err")]_vars

C6_Witness ==
  pc = "returned" /\ done /\ ~tickPending /\ Len(snaps) >= 2

\* C7 as stated: an invalid period is fatal for every maxRuns and verbose:
\* an error is returned, the loop is not entered, ReadStats is never called.
C7_BadPeriodAlwaysFatal ==
  period \notin ValidPeriods
    => /\ pc \in {"start", "returned"}
       /\ calls = 0
       /\ (pc = "returned" => ret = "err")

\* C7 amended: an invalid period is fatal for every maxRuns # 0 and every
\* verbose (error returned, loop not entered, no ReadStats call); with
\* maxRuns = 0 the period is not parsed and nil is returned, also unread.
C7_BadPeriodFatalUnlessNoop ==
  period \notin ValidPeriods
    => /\ pc \in {"start", "returned"}
       /\ calls = 0
       /\ out = <<>>
       /\ (pc = "returned" => ret = IF maxRuns = 0 THEN "nil" ELSE "err")

C7_Witness ==
  period \notin ValidPeriods /\ maxRuns # 0 /\ verbose = 2 /\ ret = "err"

\* C8: every per-tick and summary record, text or JSON, holds only entries
\* with a non-zero count and only cpus of the caller's set.
C8_OnlyNonZeroOfCpuSet ==
  \A i \in DOMAIN out : \A e \in out[i].lines : e[3] # 0 /\ e[1] \in cpus

\* C9: with maxRuns = -1 the loop never ends by the iteration counter; a
\* signal delivered leads to the end of the loop (or to a read error first);
\* then the summary is printed iff verbose >= 1, and no read or record follows.
C9_UnboundedEndsOnSignal ==
  /\ [](maxRuns = -1 /\ pc = "returned" /\ ret = "nil" => done)
  /\ ((maxRuns = -1 /\ sigPending) ~> (pc = "returned"))
  /\ [](maxRuns = -1 /\ pc = "returned" /\ done
          => /\ ret = "nil"
             /\ Summaries = IF verbose >= 1 THEN {Len(out)} ELSE {})
  /\ [][pc = "returned" => UNCHANGED <<calls, out>>]_vars

C9_Witness ==
  maxRuns = -1 /\ pc = "returned" /\ done /\ verbose >= 1 /\ Len(snaps) >= 2

\* C10: the per-tick record of tick k (printed iff verbose >= 2) is the delta
\* from snapshot k-1 to snapshot k, and after tick k the rolling slot holds
\* snapshot k: no older snapshot is ever the left side of a per-tick delta.
C10_RollingWindow ==
  /\ \A i \in DeltaRecords : /\ i + 1 <= Len(snaps)
                              /\ out[i].prev = snaps[i]
                              /\ out[i].last = snaps[i + 1]
  /\ (Len(snaps) >= 1 =>
        /\ prevStats = snaps[Len(snaps)]
        /\ Cardinality(DeltaRecords) = IF verbose >= 2 THEN Len(snaps) - 1 ELSE 0)

C10_Witness ==
  /\ verbose >= 2
  /\ Len(snaps) >= 3
  /\ snaps[1] # snaps[2] /\ snaps[2] # snaps[3] /\ snaps[1] # snaps[3]
  /\ Cardinality(DeltaRecords) >= 2

====
